---- MODULE Spec2Model ----
(***************************************************************************)
(* Model of scripts/04_find_conserved_stretches.py: a sliding window is    *)
(* moved over a protein multiple sequence alignment, every window gets the *)
(* mean of its per-column majority frequencies, the windows are ranked,    *)
(* written to a TSV file and, with a consensus sequence each, to a FASTA   *)
(* file.                                                                   *)
(*                                                                         *)
(* Conventions.  Python indexes columns from 0; TLA+ sequences from 1.     *)
(* Every column index of the model is the Python (0-based) index and is    *)
(* turned into a TLA+ index only where a cell is read (Column).            *)
(* A score is the exact fraction <<n, d>> (value n/d, d # 0) of the value  *)
(* Python holds as a double; n >= 0 always, and d < 0 stands for the       *)
(* negative zero Python gets from 0 / window_size with window_size < 0.    *)
(***************************************************************************)
EXTENDS Integers, Sequences, FiniteSets, TLC

\* ---------------------------------------------------------------- bounds
\* The largest number of cells (rows times columns) of an alignment.
MaxCells == 6

\* Symbols an alignment cell is drawn from: two residues, the gap and one
\* ambiguity code.
Alphabet == {"A", "C", "-", "X"}

\* An alignment has at least two rows, all of one length of at least one.
Shapes == {sh \in (2..MaxCells) \X (1..MaxCells) : sh[1] * sh[2] <= MaxCells}

MaxLen == MaxCells \div 2

\* Alignments AlignIO.read can return.
Alignments == UNION {[1..sh[1] -> [1..sh[2] -> Alphabet]] : sh \in Shapes}

\* Values of --window (argparse type=int).
Widths == (0 - MaxLen)..(MaxLen + 1)

\* ------------------------------------------------------------- fractions
FracAdd(a, b) == <<a[1] * b[2] + b[1] * a[2], a[2] * b[2]>>

FracPos(a) == IF a[2] < 0 THEN <<0 - a[1], 0 - a[2]>> ELSE a

FracLT(a, b) == FracPos(a)[1] * FracPos(b)[2] < FracPos(b)[1] * FracPos(a)[2]

FracEQ(a, b) == FracPos(a)[1] * FracPos(b)[2] = FracPos(b)[1] * FracPos(a)[2]

Abs(x) == IF x < 0 THEN 0 - x ELSE x

RECURSIVE SumFracs(_)
SumFracs(s) == IF s = << >> THEN <<0, 1>> ELSE FracAdd(Head(s), SumFracs(Tail(s)))

\* ------------------------------------------------------ alignment access
get_alignment_length(aln) == Len(aln[1])

\* aln[:, j] : the symbols of column j (0-based), one per row, in row order.
Column(aln, j) == [r \in 1..Len(aln) |-> aln[r][j + 1]]

\* range(a, b) as the sequence a, a+1, ..., b-1 (empty when b <= a).
PyRange(a, b) == [k \in 1..(IF b > a THEN b - a ELSE 0) |-> a + k - 1]

\* ------------------------------------------- compute_mean_conservation
\* The symbols line 32 leaves out of the counts.
Uninformative == {"-", "X", "B", "J", "Z"}

InformativeGapOnly(aa) == aa # "-"

Informative(aa) == aa \notin Uninformative

\* counts.get(aa, 0) + 1 stored under aa.
Increment(counts, aa) ==
    IF aa \in DOMAIN counts
    THEN [counts EXCEPT ![aa] = @ + 1]
    ELSE (aa :> 1) @@ counts

\* Lines 30-33: the dictionary after the rows r, r+1, ... of the column have
\* been visited, starting from the dictionary counts.
RECURSIVE CountColumn(_, _, _)
CountColumn(column, r, counts) ==
    IF r > Len(column) THEN counts
    ELSE CountColumn(column, r + 1,
                     IF Informative(column[r]) THEN Increment(counts, column[r])
                     ELSE counts)

EmptyDict == [aa \in {} |-> 0]

MaxValue(counts) ==
    CHOOSE m \in {counts[aa] : aa \in DOMAIN counts} :
        \A aa \in DOMAIN counts : counts[aa] <= m

RECURSIVE SumValues(_, _)
SumValues(counts, keys) ==
    IF keys = {} THEN 0
    ELSE LET aa == CHOOSE x \in keys : TRUE
         IN  counts[aa] + SumValues(counts, keys \ {aa})

\* Line 34: max(counts.values()) / sum(counts.values()) if counts else 0.
major_freq(counts) ==
    IF DOMAIN counts = {} THEN <<0, 1>>
    ELSE <<MaxValue(counts), SumValues(counts, DOMAIN counts)>>

\* Lines 27-35: the list window_conservation of the window starting at i.
window_conservation(aln, i, window_size) ==
    LET js == PyRange(i, i + window_size)
    IN  [k \in 1..Len(js) |-> major_freq(CountColumn(Column(aln, js[k]), 1, EmptyDict))]

\* Line 36: sum(window_conservation) / window_size, window_size # 0.
avg_cons(aln, i, window_size) ==
    LET t == SumFracs(window_conservation(aln, i, window_size))
    IN  <<t[1], t[2] * window_size>>

WindowStartsShort(aln_length, window_size) == PyRange(0, aln_length - window_size)

\* Line 26: range(aln_length - window_size + 1).
WindowStarts(aln_length, window_size) == PyRange(0, aln_length - window_size + 1)

\* Line 37: the tuple appended for the window starting at i.
WindowTuple(aln, i, window_size) ==
    <<avg_cons(aln, i, window_size), i + 1, i + window_size>>

\* Lines 25-37: the list scores before it is sorted.
UnsortedScores(aln, window_size) ==
    LET starts == WindowStarts(get_alignment_length(aln), window_size)
    IN  [k \in 1..Len(starts) |-> WindowTuple(aln, starts[k], window_size)]

TupleLTScoreOnly(x, y) == FracLT(x[1], y[1])

\* Python's order on the tuples (avg_cons, start, end): lexicographic.
TupleLT(x, y) ==
    \/ FracLT(x[1], y[1])
    \/ /\ FracEQ(x[1], y[1])
       /\ \/ x[2] < y[2]
          \/ x[2] = y[2] /\ x[3] < y[3]

\* x put into the descending list s behind every element that is not smaller
\* than x (sorted is stable, also with reverse=True).
RECURSIVE InsertDescending(_, _)
InsertDescending(x, s) ==
    IF s = << >> THEN <<x>>
    ELSE IF TupleLT(Head(s), x) THEN <<x>> \o s
    ELSE <<Head(s)>> \o InsertDescending(x, Tail(s))

RECURSIVE SortFrom(_, _, _)
SortFrom(s, k, acc) ==
    IF k > Len(s) THEN acc ELSE SortFrom(s, k + 1, InsertDescending(s[k], acc))

sorted_unchanged(s) == s

\* Line 38: sorted(scores, reverse=True).
sorted_reverse(s) == SortFrom(s, 1, << >>)

compute_mean_conservation(aln, window_size) ==
    sorted_reverse(UnsortedScores(aln, window_size))

RaisesOnZeroOrTooWide(aln, window_size) ==
    window_size = 0 \/ window_size > get_alignment_length(aln)

\* Line 36 divides by window_size in the first iteration of the outer loop;
\* the loop has aln_length + 1 >= 1 iterations when window_size = 0.
RaisesZeroDivision(aln, window_size) ==
    /\ window_size = 0
    /\ Len(WindowStarts(get_alignment_length(aln), window_size)) > 0

\* ------------------------------------------------------------------ main
Thousand == 1000

\* f"{avg_cons:.3f}": the score rounded to thousandths, halves to even, with
\* the sign Python prints (a negative zero prints as -0.000).
Fmt3(x) ==
    LET q == Thousand * Abs(x[1])
        d == Abs(x[2])
        m == q \div d
        r == q % d
    IN  [neg   |-> x[2] < 0,
         milli |-> IF 2 * r > d THEN m + 1
                   ELSE IF 2 * r = d THEN m + (m % 2)
                   ELSE m]

\* Lines 61-62: one row f"{start}\t{end}\t{avg_cons:.3f}" per entry of scores.
TsvRows(scores) ==
    [k \in 1..Len(scores) |-> <<scores[k][2], scores[k][3], Fmt3(scores[k][1])>>]

\* A slice bound of Python, for a sequence of length n: a negative bound
\* counts from the end, and the bound is clamped to 0..n.
SliceBound(b, n) ==
    LET c == IF b < 0 THEN b + n ELSE b
    IN  IF c < 0 THEN 0 ELSE IF c > n THEN n ELSE c

SliceColumnsFromStart(start, end, aln_length) ==
    PyRange(SliceBound(start, aln_length), SliceBound(end, aln_length))

\* Line 68: the columns (0-based) of aln[:, start-1:end].
SliceColumns(start, end, aln_length) ==
    PyRange(SliceBound(start - 1, aln_length), SliceBound(end, aln_length))

\* Line 68: sub_aln = aln[:, start-1:end].
sub_aln(aln, start, end) ==
    LET cols == SliceColumns(start, end, get_alignment_length(aln))
    IN  [r \in 1..Len(aln) |-> [k \in 1..Len(cols) |-> aln[r][cols[k] + 1]]]

\* threshold=0.7 as the fraction ThresholdNum / ThresholdDen.
ThresholdNum == 7
ThresholdDen == 10

\* ambiguous='X'.
Ambiguous == "X"

\* Bio.Align.AlignInfo.SummaryInfo.dumb_consensus, one column: the atoms
\* counted are the symbols other than "-" and "."; the column's symbol is the
\* single most frequent atom when its share of the atoms reaches the
\* threshold, and the ambiguous symbol otherwise (also when no atom is left).
RECURSIVE AtomDict(_, _, _)
AtomDict(column, r, atom_dict) ==
    IF r > Len(column) THEN atom_dict
    ELSE AtomDict(column, r + 1,
                  IF column[r] # "-" /\ column[r] # "."
                  THEN Increment(atom_dict, column[r])
                  ELSE atom_dict)

ConsensusSymbol(column) ==
    LET atom_dict == AtomDict(column, 1, EmptyDict)
        num_atoms == SumValues(atom_dict, DOMAIN atom_dict)
        max_size  == IF DOMAIN atom_dict = {} THEN 0 ELSE MaxValue(atom_dict)
        max_atoms == {a \in DOMAIN atom_dict : atom_dict[a] = max_size}
    IN  IF /\ Cardinality(max_atoms) = 1
           /\ ThresholdDen * max_size >= ThresholdNum * num_atoms
        THEN CHOOSE a \in max_atoms : TRUE
        ELSE Ambiguous

\* Lines 69-70: summary.dumb_consensus(threshold=0.7, ambiguous='X').
dumb_consensus(sub) ==
    [n \in 1..get_alignment_length(sub) |-> ConsensusSymbol(Column(sub, n - 1))]

ReversedRecords(aln, scores) ==
    [k \in 1..Len(scores) |->
        LET t == scores[Len(scores) + 1 - k]
        IN  [id  |-> <<t[2], t[3], Fmt3(t[1])>>,
             seq |-> dumb_consensus(sub_aln(aln, t[2], t[3]))]]

\* Lines 66-72: cons_records; the id f"Pos{start}-{end}_cons{avg_cons:.3f}" is
\* kept as its three fields.
ConsRecords(aln, scores) ==
    [k \in 1..Len(scores) |->
        [id  |-> <<scores[k][2], scores[k][3], Fmt3(scores[k][1])>>,
         seq |-> dumb_consensus(sub_aln(aln, scores[k][2], scores[k][3]))]]

\* ----------------------------------------------------------------- state
VARIABLES pc, window, aln, scores, tsv, fasta, error

vars == <<pc, window, aln, scores, tsv, fasta, error>>

\* A file that has not been written.
NoFile == [written |-> FALSE, body |-> << >>]

Init ==
    /\ pc = "start"
    /\ window \in Widths
    /\ aln = << >>
    /\ scores = << >>
    /\ tsv = NoFile
    /\ fasta = NoFile
    /\ error = "none"

Fail(e) ==
    /\ pc' = "failed"
    /\ error' = e

\* Lines 49-50: os.makedirs for the two output directories.
MakeDirs ==
    /\ pc = "start"
    /\ pc' = "dirs"
    /\ UNCHANGED <<window, aln, scores, tsv, fasta, error>>

MakeDirsFail ==
    /\ pc = "start"
    /\ Fail("OSError")
    /\ UNCHANGED <<window, aln, scores, tsv, fasta>>

\* Line 53: AlignIO.read(args.alignment, "fasta").
ReadAlignment ==
    /\ pc = "dirs"
    /\ \E a \in Alignments : aln' = a
    /\ pc' = "loaded"
    /\ UNCHANGED <<window, scores, tsv, fasta, error>>

\* Line 53 raising: no file, no record, records of unequal length.
ReadAlignmentFail ==
    /\ pc = "dirs"
    /\ Fail("ValueError")
    /\ UNCHANGED <<window, aln, scores, tsv, fasta>>

\* Line 55: scores = compute_mean_conservation(aln, args.window).
Scan ==
    /\ pc = "loaded"
    /\ ~RaisesZeroDivision(aln, window)
    /\ scores' = compute_mean_conservation(aln, window)
    /\ pc' = "scored"
    /\ UNCHANGED <<window, aln, tsv, fasta, error>>

ScanFail ==
    /\ pc = "loaded"
    /\ RaisesZeroDivision(aln, window)
    /\ Fail("ZeroDivisionError")
    /\ UNCHANGED <<window, aln, scores, tsv, fasta>>

\* Lines 59-62: the TSV file, header and rows.
WriteTSV ==
    /\ pc = "scored"
    /\ tsv' = [written |-> TRUE, body |-> TsvRows(scores)]
    /\ pc' = "tsv_written"
    /\ UNCHANGED <<window, aln, scores, fasta, error>>

\* Line 59 raising: the TSV path cannot be opened for writing.
WriteTSVFail ==
    /\ pc = "scored"
    /\ Fail("OSError")
    /\ UNCHANGED <<window, aln, scores, tsv, fasta>>

\* Lines 66-73: the consensus records, then SeqIO.write.
WriteFASTA ==
    /\ pc = "tsv_written"
    /\ fasta' = [written |-> TRUE, body |-> ConsRecords(aln, scores)]
    /\ pc' = "done"
    /\ UNCHANGED <<window, aln, scores, tsv, error>>

\* Line 73 raising: the FASTA path cannot be opened for writing.
WriteFASTAFail ==
    /\ pc = "tsv_written"
    /\ Fail("OSError")
    /\ UNCHANGED <<window, aln, scores, tsv, fasta>>

Next ==
    \/ MakeDirs
    \/ MakeDirsFail
    \/ ReadAlignment
    \/ ReadAlignmentFail
    \/ Scan
    \/ ScanFail
    \/ WriteTSV
    \/ WriteTSVFail
    \/ WriteFASTA
    \/ WriteFASTAFail

Spec == Init /\ [][Next]_vars

\* ---------------------------------------------------------------- claims
Loaded == aln # << >>

AlnLength == get_alignment_length(aln)

\* compute_mean_conservation has returned and scores holds its result.
Scanned == pc \in {"scored", "tsv_written", "done"}

ValidWidth == Loaded /\ 1 <= window /\ window <= AlnLength

\* The column score as section 4.2 states it, from the rows of the column:
\* the rows holding an informative symbol, and the largest group of them
\* that share a symbol.
InformativeRows(column) ==
    {r \in 1..Len(column) : column[r] \notin {"-", "X", "B", "J", "Z"}}

MajorityCount(column) ==
    LET groups == {Cardinality({r \in InformativeRows(column) : column[r] = column[q]}) :
                      q \in InformativeRows(column)}
    IN  CHOOSE m \in groups : \A g \in groups : g <= m

StatedColumnScore(column) ==
    IF InformativeRows(column) = {} THEN <<0, 1>>
    ELSE <<MajorityCount(column), Cardinality(InformativeRows(column))>>

\* The arithmetic mean of the stated column scores of columns s .. s+w-1.
StatedMean(s, w) ==
    LET t == SumFracs([k \in 1..w |-> StatedColumnScore(Column(aln, s + k - 1))])
    IN  <<t[1], t[2] * w>>

\* C1: for 1 <= W <= L the scan returns exactly L-W+1 windows, each with
\* end - start + 1 = W, and every pair (s+1, s+W), s in 0..L-W, is the
\* coordinates of exactly one of them.
C1_WindowCoordinates ==
    (Scanned /\ ValidWidth) =>
        /\ Len(scores) = AlnLength - window + 1
        /\ \A k \in 1..Len(scores) : scores[k][3] - scores[k][2] + 1 = window
        /\ \A s \in 0..(AlnLength - window) :
               Cardinality({k \in 1..Len(scores) :
                               scores[k][2] = s + 1 /\ scores[k][3] = s + window}) = 1

C1_Witness ==
    /\ Scanned
    /\ window = 2
    /\ AlnLength = 3
    /\ Len(scores) = 2
    /\ {<<scores[k][2], scores[k][3]>> : k \in 1..2} = {<<1, 2>>, <<2, 3>>}

\* C2: with a window width W <= 0 the scan fails: it never returns a result
\* list and no window is written.
C2_NonPositiveWidthFails ==
    window <= 0 => (~Scanned /\ ~tsv.written /\ ~fasta.written)

\* C3: with W > L the scan raises no error and returns the empty list, and a
\* completed run has written a TSV without rows and a FASTA without records.
C3_TooWideIsEmpty ==
    (Loaded /\ window > AlnLength) =>
        /\ error # "ZeroDivisionError"
        /\ Scanned => scores = << >>
        /\ pc = "done" =>
              /\ tsv.written /\ tsv.body = << >>
              /\ fasta.written /\ fasta.body = << >>

C3_Witness ==
    /\ pc = "done"
    /\ Loaded
    /\ window > AlnLength
    /\ tsv.written
    /\ fasta.written

\* C4: the returned list is non-increasing in score: no entry has a smaller
\* score than the entry after it.
C4_SortedByScore ==
    (Scanned /\ ValidWidth) =>
        \A k \in 1..(Len(scores) - 1) : ~FracLT(scores[k][1], scores[k + 1][1])

\* The best window starts behind the worst one: the sort has moved it.
C4_Witness ==
    /\ Scanned
    /\ ValidWidth
    /\ Len(scores) >= 2
    /\ FracLT(scores[Len(scores)][1], scores[1][1])
    /\ scores[1][2] > scores[Len(scores)][2]

\* C5 as stated: of two windows with equal score the one with the smaller
\* start comes first in the ranked output (here for widths 1 <= W <= L).
C5_TiesBySmallerStart ==
    (Scanned /\ ValidWidth) =>
        \A i, j \in 1..Len(scores) :
            (i < j /\ FracEQ(scores[i][1], scores[j][1])) => scores[i][2] < scores[j][2]

\* C5 amended: of two windows with equal score the one with the larger start
\* comes first in the ranked output.
C5_TiesByLargerStart ==
    Scanned =>
        \A i, j \in 1..Len(scores) :
            (i < j /\ FracEQ(scores[i][1], scores[j][1])) => scores[i][2] > scores[j][2]

C5_Witness ==
    /\ Scanned
    /\ ValidWidth
    /\ \E i, j \in 1..Len(scores) :
          /\ i < j
          /\ FracEQ(scores[i][1], scores[j][1])
          /\ scores[i][2] = scores[j][2] + 1

\* C6: the score of the window starting at s is the mean over columns
\* s .. s+W-1 of the stated column score (0 for a column without informative
\* symbol); it lies in [0, 1] and is 1 when every column of the window holds
\* one informative symbol in every row.
C6_ScoreIsMeanOfColumnScores ==
    (Scanned /\ ValidWidth) =>
        \A k \in 1..Len(scores) :
            LET s == scores[k][2] - 1
            IN  /\ FracEQ(scores[k][1], StatedMean(s, window))
                /\ ~FracLT(scores[k][1], <<0, 1>>)
                /\ ~FracLT(<<1, 1>>, scores[k][1])
                /\ (\A j \in s..(s + window - 1) :
                        /\ Cardinality(InformativeRows(Column(aln, j))) = Len(aln)
                        /\ MajorityCount(Column(aln, j)) = Len(aln))
                   => FracEQ(scores[k][1], <<1, 1>>)

\* A window with a column of ambiguity symbols only (score 0) next to a
\* column where a residue faces an ambiguity symbol (score 1).
C6_Witness ==
    /\ Scanned
    /\ ValidWidth
    /\ window = 2
    /\ \E k \in 1..Len(scores) :
          LET s == scores[k][2] - 1
          IN  /\ InformativeRows(Column(aln, s)) = {}
              /\ Cardinality(InformativeRows(Column(aln, s + 1))) = 1
              /\ \E r \in 1..Len(aln) : aln[r][s + 2] = "X"
              /\ FracEQ(scores[k][1], <<1, 2>>)

\* C7: in every column of a window that has an informative symbol, the
\* consensus symbol is the majority informative symbol when it makes up at
\* least 0.7 of the informative symbols, and X otherwise.
C7_ConsensusOverInformative ==
    (pc = "done" /\ ValidWidth) =>
        \A k \in 1..Len(scores) : \A n \in 1..window :
            LET column == Column(aln, scores[k][2] - 1 + n - 1)
                inf    == InformativeRows(column)
            IN  inf # {} =>
                  fasta.body[k].seq[n] =
                      IF ThresholdDen * MajorityCount(column) >= ThresholdNum * Cardinality(inf)
                      THEN column[CHOOSE q \in inf :
                                     Cardinality({r \in inf : column[r] = column[q]})
                                         = MajorityCount(column)]
                      ELSE "X"

\* C8: the consensus of a ranked window (start, end) is taken from the W
\* columns start-1 .. end-1, the columns its score is the mean of, and has
\* length W.
C8_ConsensusOverScoredColumns ==
    (pc = "done" /\ ValidWidth) =>
        \A k \in 1..Len(scores) :
            LET start == scores[k][2]
                end   == scores[k][3]
                cols  == SliceColumns(start, end, AlnLength)
            IN  /\ cols = PyRange(start - 1, start - 1 + window)
                /\ cols = PyRange(start - 1, end)
                /\ Len(fasta.body[k].seq) = window
                /\ \A n \in 1..Len(fasta.body[k].seq) :
                       fasta.body[k].seq[n] = ConsensusSymbol(Column(aln, start - 1 + n - 1))

C8_Witness ==
    /\ pc = "done"
    /\ window = 2
    /\ AlnLength = 3
    /\ Len(fasta.body) = 2
    /\ fasta.body[1].id[1] = 2
    /\ Len(fasta.body[1].seq) = 2
    /\ fasta.body[1].seq # fasta.body[2].seq

\* C9: a run that ended in an error has written neither the TSV nor the
\* FASTA file (here for the runs with a positive width, and the runs that
\* failed before the alignment was read).
C9_NoOutputOnError ==
    (pc = "failed" /\ window >= 1) => (~tsv.written /\ ~fasta.written)

\* C10: a completed run has written one FASTA record per ranked window, and
\* the k-th record's identifier carries the start, end and formatted score of
\* the k-th TSV row, which are those of the k-th ranked window.
C10_FastaFollowsTsv ==
    pc = "done" =>
        /\ Len(fasta.body) = Len(scores)
        /\ Len(tsv.body) = Len(scores)
        /\ \A k \in 1..Len(scores) :
               /\ fasta.body[k].id = tsv.body[k]
               /\ tsv.body[k][1] = scores[k][2]
               /\ tsv.body[k][2] = scores[k][3]
               /\ tsv.body[k][3] = Fmt3(scores[k][1])

C10_Witness ==
    /\ pc = "done"
    /\ ValidWidth
    /\ Len(fasta.body) = 3
    /\ fasta.body[1].id[1] = 2
    /\ fasta.body[1].id[3].milli = 1000
    /\ fasta.body[3].id[3].milli = 500

====
